---- MODULE Spec2Model ----
(***************************************************************************)
(* git-regex-search: the Action of main.go as a state machine.             *)
(* Strings are sequences of one-character strings, so that trimming,       *)
(* splitting and formatting are computed as the Go code computes them.     *)
(* Every external process (git, rg/grep) is an environment step whose      *)
(* exit status and captured output are chosen nondeterministically.        *)
(***************************************************************************)
EXTENDS Integers, Sequences, FiniteSets, TLC

\* ------------------------------------------------------------------ bounds
MaxArgLen == 3        \* longest --branches argument, in characters
MaxOutLen == 3        \* longest captured search output, in characters
MaxRemoteLines == 2   \* most lines printed by 'git branch -r'
MaxNameTokens == 4    \* longest name given to the normalization, in tokens

\* ------------------------------------------------------- string helpers
Strings(alphabet, n) == UNION {[1..k -> alphabet] : k \in 0..n}

IsSpace(c) == c \in {" ", "\n", "\t"}

RECURSIVE TrimLeft(_)
TrimLeft(s) == IF s # <<>> /\ IsSpace(Head(s)) THEN TrimLeft(Tail(s)) ELSE s

RECURSIVE TrimRight(_)
TrimRight(s) ==
    IF s # <<>> /\ IsSpace(s[Len(s)])
    THEN TrimRight(SubSeq(s, 1, Len(s) - 1))
    ELSE s

TrimSpace(s) == TrimRight(TrimLeft(s))

\* index of the first occurrence of character c in s, 0 when absent
IndexOf(s, c) ==
    IF \E k \in 1..Len(s) : s[k] = c
    THEN CHOOSE k \in 1..Len(s) : s[k] = c /\ \A j \in 1..(k - 1) : s[j] # c
    ELSE 0

\* strings.SplitN(s, sep, n) for a one-character sep and n >= 1
RECURSIVE SplitN(_, _, _)
SplitN(s, sep, n) ==
    LET k == IndexOf(s, sep)
    IN  IF n = 1 \/ k = 0
        THEN <<s>>
        ELSE <<SubSeq(s, 1, k - 1)>> \o SplitN(SubSeq(s, k + 1, Len(s)), sep, n - 1)

\* strings.Split(s, sep) for a one-character sep: no limit on the pieces
Split(s, sep) == SplitN(s, sep, Len(s) + 1)

HasPrefix(s, p) == Len(s) >= Len(p) /\ SubSeq(s, 1, Len(p)) = p

TrimPrefix(s, p) == IF HasPrefix(s, p) THEN SubSeq(s, Len(p) + 1, Len(s)) ELSE s

Contains(s, sub) ==
    \E k \in 1..(Len(s) - Len(sub) + 1) : SubSeq(s, k, k + Len(sub) - 1) = sub

RECURSIVE Join(_, _)
Join(parts, sep) ==
    IF parts = <<>> THEN <<>>
    ELSE IF Len(parts) = 1 THEN parts[1]
    ELSE parts[1] \o sep \o Join(Tail(parts), sep)

\* ------------------------------------------------------------ input sets
ArgChars == {"m", "d", ",", " "}
\* an explicit entry written with the remote prefix, as in --branches origin/m
PrefixedArgs == {<<"o", "r", "i", "g", "i", "n", "/", "m">>}
BranchesArgs == Strings(ArgChars, MaxArgLen) \cup PrefixedArgs

Regexes == {"TODO", "("}
\* regexp.Compile(regex) succeeds
RegexCompiles(r) == r # "("

OutChars == {"a", ":", "\n"}
SearchOutputs == Strings(OutChars, MaxOutLen)

\* what 'git rev-parse --abbrev-ref HEAD' can print
RevParseOutputs == {<<"m", "\n">>, <<"x", "\n">>}

OriginPrefix == <<"o", "r", "i", "g", "i", "n", "/">>
Arrow == <<"-", ">">>
\* lines 'git branch -r' can print
RemoteLines ==
    { <<" ", " ">> \o OriginPrefix \o <<"m">>,
      <<" ", " ">> \o OriginPrefix \o <<"d">>,
      <<" ", " ">> \o OriginPrefix \o <<"H", " ">> \o Arrow \o <<" ">> \o OriginPrefix \o <<"m">>,
      <<>> }
RemoteOutputs ==
    {Join(ls, <<"\n">>) : ls \in UNION {[1..k -> RemoteLines] : k \in 0..MaxRemoteLines}}

\* names to normalize: whitespace, the remote prefix and a letter in any order
NameTokens == {<<" ">>, OriginPrefix, <<"m">>}
NameInputs == {Join(ts, <<>>) : ts \in Strings(NameTokens, MaxNameTokens)}

\* --include-glob / --exclude-glob values: none, one of either kind, blank
\* ones among the others, a blank one alone
GlobArgs ==
    { [include |-> <<>>, exclude |-> <<>>],
      [include |-> << <<"g">> >>, exclude |-> <<>>],
      [include |-> <<>>, exclude |-> << <<"h">> >>],
      [include |-> << <<" ">>, <<"g">> >>, exclude |-> << <<"h">>, <<" ">> >>],
      [include |-> << <<" ">> >>, exclude |-> <<>>] }
\* --branches values of the runs with globs: all remote branches, two
\* branches, a branch and an empty entry
GlobRunBranches == {<<>>, <<"m", ",", "d">>, <<"m", ",">>}

\* ----------------------------------------------------------------- state
VARIABLES
    pc,             \* position in the Action / main
    branchesArg,    \* --branches
    regex,          \* --regex
    includeGlobs,   \* --include-glob values
    excludeGlobs,   \* --exclude-glob values
    rgExists,       \* commandExists("rg"), the same at every lookup of a run
    warnings,       \* ignored-globs warnings printed so far
    searchCmd,      \* command line of the last search
    gitStat,        \* result of os.Stat(<repo>/.git)
    currentBranch,  \* branch recorded at start
    branches,       \* branch set the loop ranges over
    i,              \* loop index into branches
    branch,         \* loop variable after trimming
    calls,          \* external invocations so far, in order
    noneSucceeded,  \* every result discarded with _, _ = so far was an error
    ownStash,       \* the stash holds an entry made by this run's stash push
    popped,         \* what the run's stash pop removed: "none", "own", "foreign"
    checkoutOk,     \* exit status of the last git checkout
    gitErr,         \* the git invocation whose error the Action returned
    searchErr,      \* cmd.Run() error of the last search
    searchOutEmpty, \* out.Len() == 0 for the last search
    matches,        \* lines returned by grepRepo for the current branch
    countLine,      \* the "Found N matches" / "No matches found" line
    emitted,        \* match lines printed for the current branch
    completed,      \* "Search completed!" printed
    err,            \* error returned by the Action
    stderrLine,     \* "Error: ..." printed on stderr
    exitCode,       \* process exit code, -1 while running
    normalized      \* a name followed by its successive normalizations

vars == <<pc, branchesArg, regex, includeGlobs, excludeGlobs, rgExists,
          warnings, searchCmd, gitStat, currentBranch, branches, i, branch,
          calls, noneSucceeded, ownStash, popped, checkoutOk, gitErr,
          searchErr, searchOutEmpty, matches, countLine, emitted,
          completed, err, stderrLine, exitCode, normalized>>

NoErr == [kind |-> "nil", arg |-> <<>>]
NoCount == [kind |-> "none", n |-> 0, branch |-> <<>>]
NoCmd == [tool |-> "none", flags |-> <<>>, globs |-> <<>>, pattern |-> "", path |-> ""]
Call(cmd, arg) == [cmd |-> cmd, arg |-> arg]

Init ==
    /\ pc = "abs"
    /\ branchesArg \in BranchesArgs
    /\ regex \in Regexes
    /\ includeGlobs = <<>>
    /\ excludeGlobs = <<>>
    /\ rgExists = TRUE
    /\ warnings = 0
    /\ searchCmd = NoCmd
    /\ gitStat = "unknown"
    /\ currentBranch = <<>>
    /\ branches = <<>>
    /\ i = 1
    /\ branch = <<>>
    /\ calls = <<>>
    /\ noneSucceeded = TRUE
    /\ ownStash = FALSE
    /\ popped = "none"
    /\ checkoutOk = FALSE
    /\ gitErr = "none"
    /\ searchErr = FALSE
    /\ searchOutEmpty = TRUE
    /\ matches = <<>>
    /\ countLine = NoCount
    /\ emitted = <<>>
    /\ completed = FALSE
    /\ err = NoErr
    /\ stderrLine = NoErr
    /\ exitCode = -1
    /\ normalized = <<>>

\* the variables of the per-branch report
report == <<searchErr, searchOutEmpty, matches, countLine, emitted>>
inputs == <<branchesArg, regex, includeGlobs, excludeGlobs, rgExists>>
\* the repository as the run's git invocations leave it
git == <<ownStash, popped, checkoutOk>>

\* return fmt.Errorf(...) from the Action
Return(kind, arg) ==
    /\ pc' = "returned"
    /\ err' = [kind |-> kind, arg |-> arg]

\* what a git invocation with exit status ok does to the repository:
\* 'stash push' makes an entry only when there are local changes, 'stash pop'
\* removes the top entry of the stash, whoever made it
GitEffect(cmd, ok) ==
    /\ checkoutOk' = IF cmd = "checkout" THEN ok ELSE checkoutOk
    /\ ownStash' \in IF cmd = "stash push" THEN (IF ok THEN BOOLEAN ELSE {FALSE})
                      ELSE IF cmd = "stash pop" /\ ok THEN {FALSE}
                      ELSE {ownStash}
    /\ popped' = IF cmd = "stash pop" /\ ok
                 THEN (IF ownStash THEN "own" ELSE "foreign")
                 ELSE popped

\* BestEffort with the error checked: a failed invocation aborts the run
BestEffortAborts(cmd, arg, next) ==
    /\ calls' = Append(calls, Call(cmd, arg))
    /\ \E ok \in BOOLEAN :
          /\ GitEffect(cmd, ok)
          /\ IF ok
             THEN noneSucceeded' = FALSE /\ pc' = next /\ err' = err
             ELSE noneSucceeded' = noneSucceeded /\ Return("git command failed", arg)

\* runGitCmd whose result is discarded: _, _ = runGitCmd(...); the Action
\* goes on to next whatever the exit status
BestEffort(cmd, arg, next) ==
    /\ calls' = Append(calls, Call(cmd, arg))
    /\ \E ok \in BOOLEAN :
          /\ noneSucceeded' = (noneSucceeded /\ ~ok)
          /\ GitEffect(cmd, ok)
    /\ pc' = next
    /\ err' = err

\* filepath.Abs(c.String("repo"))
ResolvePath ==
    /\ pc = "abs"
    /\ \E ok \in BOOLEAN :
          IF ok
          THEN pc' = "stat" /\ err' = err
          ELSE Return("invalid repo path", <<>>)
    /\ UNCHANGED <<normalized, warnings, searchCmd, gitErr, inputs, gitStat,
                   currentBranch, branches, i, branch, calls, noneSucceeded,
                   git, report, completed, stderrLine, exitCode>>

\* StatGitDir with the not-exist result ignored
StatGitDirContinues ==
    /\ pc = "stat"
    /\ \E st \in {"exists", "notexist", "othererror"} : gitStat' = st
    /\ pc' = "revparse"
    /\ UNCHANGED <<normalized, warnings, searchCmd, gitErr, inputs,
                   currentBranch, branches, i, branch, calls, noneSucceeded,
                   git, report, completed, err, stderrLine, exitCode>>

\* os.Stat(filepath.Join(repoPath, ".git")); os.IsNotExist(err)
StatGitDir ==
    /\ pc = "stat"
    /\ \E st \in {"exists", "notexist", "othererror"} :
          /\ gitStat' = st
          /\ IF st = "notexist"
             THEN Return("not a git repository", <<>>)
             ELSE pc' = "revparse" /\ err' = err
    /\ UNCHANGED <<normalized, warnings, searchCmd, gitErr, inputs,
                   currentBranch, branches, i, branch, calls, noneSucceeded,
                   git, report, completed, stderrLine, exitCode>>

\* RevParse with the error of the lookup discarded like the others
RevParseIgnoresError ==
    /\ pc = "revparse"
    /\ calls' = Append(calls, Call("rev-parse", <<>>))
    /\ \E ok \in BOOLEAN, out \in RevParseOutputs :
          /\ currentBranch' = TrimSpace(out)
          /\ gitErr' = IF ok THEN gitErr ELSE "rev-parse"
    /\ pc' = "warn"
    /\ UNCHANGED <<normalized, warnings, searchCmd, inputs, gitStat, branches,
                   i, branch, noneSucceeded, git, report, completed, err,
                   stderrLine, exitCode>>

\* currentBranch, err := runGitCmd(repoPath, "rev-parse", "--abbrev-ref", "HEAD")
RevParse ==
    /\ pc = "revparse"
    /\ calls' = Append(calls, Call("rev-parse", <<>>))
    /\ \E ok \in BOOLEAN, out \in RevParseOutputs :
          IF ok
          THEN /\ currentBranch' = TrimSpace(out)
               /\ pc' = "warn"
               /\ err' = err
               /\ gitErr' = gitErr
          ELSE /\ currentBranch' = currentBranch
               /\ gitErr' = "rev-parse"
               /\ Return("failed to get current branch", <<>>)
    /\ UNCHANGED <<normalized, warnings, searchCmd, inputs, gitStat, branches,
                   i, branch, noneSucceeded, git, report, completed,
                   stderrLine, exitCode>>

\* if (len(includeGlobs) > 0 || len(excludeGlobs) > 0) && !commandExists("rg")
\* { "Warning: include/exclude glob options require 'rg' ..." }
WarnGlobs ==
    /\ pc = "warn"
    /\ warnings' = IF (Len(includeGlobs) > 0 \/ Len(excludeGlobs) > 0) /\ ~rgExists
                   THEN warnings + 1
                   ELSE warnings
    /\ pc' = "stash"
    /\ UNCHANGED <<normalized, searchCmd, gitErr, inputs, gitStat,
                   currentBranch, branches, i, branch, calls, noneSucceeded,
                   git, report, completed, err, stderrLine, exitCode>>

\* _, _ = runGitCmd(repoPath, "stash", "push", "-u", "-m", ...)
StashPush ==
    /\ pc = "stash"
    /\ BestEffort("stash push", <<>>, "fetch")
    /\ UNCHANGED <<normalized, warnings, searchCmd, gitErr, inputs, gitStat,
                   currentBranch, branches, i, branch, report, completed,
                   stderrLine, exitCode>>

\* _, _ = runGitCmd(repoPath, "fetch", "--all", "--quiet")
Fetch ==
    /\ pc = "fetch"
    /\ BestEffort("fetch", <<>>, "branches")
    /\ UNCHANGED <<normalized, warnings, searchCmd, gitErr, inputs, gitStat,
                   currentBranch, branches, i, branch, report, completed,
                   stderrLine, exitCode>>

\* one line of 'git branch -r' kept as a branch name, or dropped
KeepRemoteLine(b) == TrimSpace(b) # <<>> /\ ~Contains(TrimSpace(b), Arrow)

\* Normalize with the prefix stripped before the whitespace
NormalizePrefixFirst(b) == TrimSpace(TrimPrefix(b, OriginPrefix))

\* b = strings.TrimSpace(b); strings.TrimPrefix(b, "origin/")
Normalize(b) == TrimPrefix(TrimSpace(b), OriginPrefix)

RECURSIVE RemoteBranches(_)
RemoteBranches(ls) ==
    IF ls = <<>> THEN <<>>
    ELSE (IF KeepRemoteLine(Head(ls))
          THEN <<Normalize(Head(ls))>>
          ELSE <<>>) \o RemoteBranches(Tail(ls))

\* DetermineExplicit that also enumerates the remote branches
DetermineExplicitEnumerates ==
    /\ pc = "branches"
    /\ branchesArg # <<>>
    /\ calls' = Append(calls, Call("branch -r", <<>>))
    /\ branches' = Split(branchesArg, ",")
    /\ pc' = "regex"
    /\ UNCHANGED <<normalized, warnings, searchCmd, gitErr, inputs, gitStat,
                   currentBranch, i, branch, noneSucceeded, git, report,
                   completed, err, stderrLine, exitCode>>

\* branches = strings.Split(branchesArg, ",")
DetermineExplicit ==
    /\ pc = "branches"
    /\ branchesArg # <<>>
    /\ branches' = Split(branchesArg, ",")
    /\ pc' = "regex"
    /\ UNCHANGED <<normalized, warnings, searchCmd, gitErr, inputs, gitStat,
                   currentBranch, i, branch, calls, noneSucceeded, git,
                   report, completed, err, stderrLine, exitCode>>

\* branchList, err := runGitCmd(repoPath, "branch", "-r") and its filtering
DetermineRemote ==
    /\ pc = "branches"
    /\ branchesArg = <<>>
    /\ calls' = Append(calls, Call("branch -r", <<>>))
    /\ \E ok \in BOOLEAN, out \in RemoteOutputs :
          IF ok
          THEN /\ branches' = RemoteBranches(Split(TrimSpace(out), "\n"))
               /\ pc' = "regex"
               /\ err' = err
               /\ gitErr' = gitErr
          ELSE /\ branches' = branches
               /\ gitErr' = "branch -r"
               /\ Return("failed to list remote branches", <<>>)
    /\ UNCHANGED <<normalized, warnings, searchCmd, inputs, gitStat,
                   currentBranch, i, branch, noneSucceeded, git, report,
                   completed, stderrLine, exitCode>>

\* regexp.Compile(regex)
ValidateRegex ==
    /\ pc = "regex"
    /\ IF RegexCompiles(regex)
       THEN pc' = "loop" /\ err' = err
       ELSE Return("invalid regex", <<>>)
    /\ UNCHANGED <<normalized, warnings, searchCmd, gitErr, inputs, gitStat,
                   currentBranch, branches, i, branch, calls, noneSucceeded,
                   git, report, completed, stderrLine, exitCode>>

\* ------------------------------------------------------------ branch loop
\* branch = strings.TrimSpace(branch); if branch == "" { continue }
LoopSkip ==
    /\ pc = "loop"
    /\ i <= Len(branches)
    /\ TrimSpace(branches[i]) = <<>>
    /\ i' = i + 1
    /\ UNCHANGED <<normalized, warnings, searchCmd, gitErr, pc, inputs,
                   gitStat, currentBranch, branches, branch, calls,
                   noneSucceeded, git, report, completed, err, stderrLine,
                   exitCode>>

\* Checkout that goes straight to the search, without the pull
CheckoutThenSearch ==
    /\ pc = "loop"
    /\ i <= Len(branches)
    /\ TrimSpace(branches[i]) # <<>>
    /\ branch' = TrimSpace(branches[i])
    /\ BestEffort("checkout", TrimSpace(branches[i]), "search")
    /\ searchErr' = FALSE
    /\ searchOutEmpty' = TRUE
    /\ matches' = <<>>
    /\ countLine' = NoCount
    /\ emitted' = <<>>
    /\ UNCHANGED <<normalized, warnings, searchCmd, gitErr, inputs, gitStat,
                   currentBranch, branches, i, completed, stderrLine,
                   exitCode>>

\* "Searching branch: B"; _, _ = runGitCmd(repoPath, "checkout", branch)
Checkout ==
    /\ pc = "loop"
    /\ i <= Len(branches)
    /\ TrimSpace(branches[i]) # <<>>
    /\ branch' = TrimSpace(branches[i])
    /\ BestEffort("checkout", TrimSpace(branches[i]), "pull")
    /\ searchErr' = FALSE
    /\ searchOutEmpty' = TRUE
    /\ matches' = <<>>
    /\ countLine' = NoCount
    /\ emitted' = <<>>
    /\ UNCHANGED <<normalized, warnings, searchCmd, gitErr, inputs, gitStat,
                   currentBranch, branches, i, completed, stderrLine,
                   exitCode>>

\* _, _ = runGitCmd(repoPath, "pull", "origin", branch)
Pull ==
    /\ pc = "pull"
    /\ BestEffort("pull", branch, "search")
    /\ UNCHANGED <<normalized, warnings, searchCmd, gitErr, inputs, gitStat,
                   currentBranch, branches, i, branch, report, completed,
                   stderrLine, exitCode>>

\* the globs grepRepo keeps:
\* for _, g := range globs { if strings.TrimSpace(g) == "" { continue } ... }
RECURSIVE NonBlank(_)
NonBlank(gs) ==
    IF gs = <<>> THEN <<>>
    ELSE (IF TrimSpace(Head(gs)) = <<>> THEN <<>> ELSE <<Head(gs)>>) \o NonBlank(Tail(gs))

\* "!"+g for each exclude glob
Negated(gs) == [k \in 1..Len(gs) |-> <<"!">> \o gs[k]]

\* SearchCommand with the globs handed to grep as well
SearchCommandGlobsToGrep(rg, pattern, include, exclude) ==
    [tool |-> IF rg THEN "rg" ELSE "grep",
     flags |-> IF rg THEN <<"-n", "-uu", "--pcre2">> ELSE <<"-rnE">>,
     globs |-> NonBlank(include) \o Negated(NonBlank(exclude)),
     pattern |-> pattern,
     path |-> IF rg THEN "" ELSE "."]

\* the command grepRepo builds: rg -n -uu --pcre2 [--glob g]... pattern, or
\* grep -rnE pattern . ; globs holds the value after each --glob
SearchCommand(rg, pattern, include, exclude) ==
    IF rg
    THEN [tool |-> "rg", flags |-> <<"-n", "-uu", "--pcre2">>,
          globs |-> NonBlank(include) \o Negated(NonBlank(exclude)),
          pattern |-> pattern, path |-> ""]
    ELSE [tool |-> "grep", flags |-> <<"-rnE">>, globs |-> <<>>,
          pattern |-> pattern, path |-> "."]

\* grepRepo once the search process has exited: runErr is cmd.Run()'s error,
\* out the captured stdout and stderr
grepRepo(runErr, out) ==
    IF runErr /\ Len(out) = 0
    THEN [matches |-> <<>>, err |-> FALSE]
    ELSE [matches |-> Split(TrimSpace(out), "\n"), err |-> FALSE]

\* what one run of the search process leaves behind: cmd.Run()'s error,
\* whether anything was captured, and what grepRepo returns
SearchOutcome(runErr, out) ==
    [runErr |-> runErr, outEmpty |-> (Len(out) = 0), result |-> grepRepo(runErr, out)]

SearchOutcomes == {SearchOutcome(e, o) : e \in BOOLEAN, o \in SearchOutputs}

\* FormatMatch with the file and line-number fields exchanged
FormatMatchSwapped(b, parts) ==
    b \o <<":">> \o parts[2] \o <<":">> \o parts[1] \o <<" ">> \o parts[3]

\* fmt.Printf("%s:%s%s %s\n", branch, file, ":"+lineNum, lineText)
FormatMatch(b, parts) ==
    b \o <<":">> \o parts[1] \o <<":">> \o parts[2] \o <<" ">> \o parts[3]

\* the loop over matches: lines that split in fewer than 3 parts are skipped
RECURSIVE MatchLines(_, _)
MatchLines(b, ms) ==
    IF ms = <<>> THEN <<>>
    ELSE LET parts == SplitN(Head(ms), ":", 3)
         IN  (IF Len(parts) < 3 THEN <<>> ELSE <<FormatMatch(b, parts)>>)
             \o MatchLines(b, Tail(ms))

\* "Found %d matches in %s" or "No matches found in %s"
CountLine(b, ms) ==
    IF Len(ms) > 0
    THEN [kind |-> "found", n |-> Len(ms), branch |-> b]
    ELSE [kind |-> "nomatches", n |-> 0, branch |-> b]

\* matches, err := grepRepo(...); the count line; the match lines
Search ==
    /\ pc = "search"
    /\ calls' = Append(calls, Call("search", <<>>))
    /\ searchCmd' = SearchCommand(rgExists, regex, includeGlobs, excludeGlobs)
    /\ \E oc \in SearchOutcomes :
          LET r == oc.result
          IN  /\ searchErr' = oc.runErr
              /\ searchOutEmpty' = oc.outEmpty
              /\ IF r.err
                 THEN /\ Return("search failed", branch)
                      /\ UNCHANGED <<i, matches, countLine, emitted>>
                 ELSE /\ matches' = r.matches
                      /\ countLine' = CountLine(branch, r.matches)
                      /\ emitted' = MatchLines(branch, r.matches)
                      /\ i' = i + 1
                      /\ pc' = "loop"
                      /\ err' = err
    /\ UNCHANGED <<normalized, warnings, gitErr, inputs, gitStat,
                   currentBranch, branches, branch, noneSucceeded, git,
                   completed, stderrLine, exitCode>>

\* --------------------------------------------------------------- restore
\* CheckoutBack to the last branch of the loop instead of the recorded one
CheckoutBackToLoopBranch ==
    /\ pc = "loop"
    /\ i > Len(branches)
    /\ BestEffort("checkout", branch, "pop")
    /\ searchErr' = FALSE
    /\ searchOutEmpty' = TRUE
    /\ matches' = <<>>
    /\ countLine' = NoCount
    /\ emitted' = <<>>
    /\ UNCHANGED <<normalized, warnings, searchCmd, gitErr, inputs, gitStat,
                   currentBranch, branches, i, branch, completed, stderrLine,
                   exitCode>>

\* "Restoring original branch"; _, _ = runGitCmd(repoPath, "checkout", currentBranch)
CheckoutBack ==
    /\ pc = "loop"
    /\ i > Len(branches)
    /\ BestEffort("checkout", currentBranch, "pop")
    /\ searchErr' = FALSE
    /\ searchOutEmpty' = TRUE
    /\ matches' = <<>>
    /\ countLine' = NoCount
    /\ emitted' = <<>>
    /\ UNCHANGED <<normalized, warnings, searchCmd, gitErr, inputs, gitStat,
                   currentBranch, branches, i, branch, completed, stderrLine,
                   exitCode>>

\* _, _ = runGitCmd(repoPath, "stash", "pop"); "Search completed!"; return nil
StashPop ==
    /\ pc = "pop"
    /\ BestEffort("stash pop", <<>>, "returned")
    /\ completed' = TRUE
    /\ UNCHANGED <<normalized, warnings, searchCmd, gitErr, inputs, gitStat,
                   currentBranch, branches, i, branch, report, stderrLine,
                   exitCode>>

\* MainExit without the os.Exit(1)
MainExitAlwaysZero ==
    /\ pc = "returned"
    /\ pc' = "exit"
    /\ exitCode' = 0
    /\ stderrLine' = IF err # NoErr THEN err ELSE stderrLine
    /\ UNCHANGED <<normalized, warnings, searchCmd, gitErr, inputs, gitStat,
                   currentBranch, branches, i, branch, calls, noneSucceeded,
                   git, report, completed, err>>

\* if err := app.Run(os.Args); err != nil { "Error: ..."; os.Exit(1) }
MainExit ==
    /\ pc = "returned"
    /\ pc' = "exit"
    /\ IF err # NoErr
       THEN stderrLine' = err /\ exitCode' = 1
       ELSE stderrLine' = stderrLine /\ exitCode' = 0
    /\ UNCHANGED <<normalized, warnings, searchCmd, gitErr, inputs, gitStat,
                   currentBranch, branches, i, branch, calls, noneSucceeded,
                   git, report, completed, err>>

Next ==
    \/ ResolvePath
    \/ StatGitDir
    \/ RevParse
    \/ WarnGlobs
    \/ StashPush
    \/ Fetch
    \/ DetermineExplicit
    \/ DetermineRemote
    \/ ValidateRegex
    \/ LoopSkip
    \/ Checkout
    \/ Pull
    \/ Search
    \/ CheckoutBack
    \/ StashPop
    \/ MainExit

Spec == Init /\ [][Next]_vars

\* ------------------------------------------------- normalization alone
\* the run's variables before anything has happened
Idle ==
    /\ warnings = 0
    /\ searchCmd = NoCmd
    /\ gitStat = "unknown"
    /\ currentBranch = <<>>
    /\ branches = <<>>
    /\ i = 1
    /\ branch = <<>>
    /\ calls = <<>>
    /\ noneSucceeded = TRUE
    /\ ownStash = FALSE
    /\ popped = "none"
    /\ checkoutOk = FALSE
    /\ gitErr = "none"
    /\ searchErr = FALSE
    /\ searchOutEmpty = TRUE
    /\ matches = <<>>
    /\ countLine = NoCount
    /\ emitted = <<>>
    /\ completed = FALSE
    /\ err = NoErr
    /\ stderrLine = NoErr
    /\ exitCode = -1

InitNormalize ==
    /\ pc = "normalize"
    /\ branchesArg = <<>>
    /\ regex = "TODO"
    /\ includeGlobs = <<>>
    /\ excludeGlobs = <<>>
    /\ rgExists = TRUE
    /\ Idle
    /\ \E b \in NameInputs : normalized = <<b>>

\* the normalization of a remote line applied to a name, then to its result
NormalizeName ==
    /\ pc = "normalize"
    /\ Len(normalized) < 3
    /\ normalized' = Append(normalized, Normalize(normalized[Len(normalized)]))
    /\ UNCHANGED <<pc, inputs, warnings, searchCmd, gitStat, currentBranch,
                   branches, i, branch, calls, noneSucceeded, git, gitErr,
                   report, completed, err, stderrLine, exitCode>>

NextNormalize == NormalizeName

SpecNormalize == InitNormalize /\ [][NextNormalize]_vars

\* ------------------------------------------------------ runs with globs
InitGlobs ==
    /\ pc = "abs"
    /\ branchesArg \in GlobRunBranches
    /\ regex = "TODO"
    /\ \E ga \in GlobArgs : includeGlobs = ga.include /\ excludeGlobs = ga.exclude
    /\ rgExists \in BOOLEAN
    /\ Idle
    /\ normalized = <<>>

SpecGlobs == InitGlobs /\ [][Next]_vars

TypeOK ==
    /\ pc \in {"abs", "stat", "revparse", "warn", "normalize", "stash", "fetch",
               "branches", "regex",
               "loop", "pull", "search", "pop", "returned", "exit"}
    /\ exitCode \in {-1, 0, 1}
    /\ i \in 1..(Len(branches) + 1)
    /\ noneSucceeded \in BOOLEAN
    /\ rgExists \in BOOLEAN
    /\ warnings \in 0..1

\* ------------------------------------------------------- derived history
HasCall(cmd) == \E k \in 1..Len(calls) : calls[k].cmd = cmd

IsPull(c) == c.cmd = "pull"
IsCheckout(c) == c.cmd = "checkout"
Args(cs) == [k \in 1..Len(cs) |-> cs[k].arg]
PullTargets == Args(SelectSeq(calls, IsPull))
CheckoutTargets == Args(SelectSeq(calls, IsCheckout))

IsPrefixOf(s, t) == Len(s) <= Len(t) /\ SubSeq(t, 1, Len(s)) = s

NonEmpty(s) == s # <<>>
\* names trimmed of surrounding whitespace, the empty ones left out
TrimmedNonEmpty(names) ==
    SelectSeq([k \in 1..Len(names) |-> TrimSpace(names[k])], NonEmpty)

Succeeded == pc = "exit" /\ exitCode = 0

\* ------------------------------------------------------------------ C1
\* C1: a run that ends with the invalid-regex error has invoked no
\* 'git stash push', 'git fetch' or 'git checkout' before that error.
C1_InvalidRegexBeforeMutation ==
    err.kind = "invalid regex" =>
        \A k \in 1..Len(calls) : calls[k].cmd \notin {"stash push", "fetch", "checkout"}

\* ------------------------------------------------------------------ C2
\* C2: on every exit path, if 'git stash push' was invoked then
\* 'git checkout <original branch>' and 'git stash pop' were invoked after it
\* before the process exits.
C2_StashAlwaysRestored ==
    (pc = "exit" /\ HasCall("stash push")) =>
        \E p, j, k \in 1..Len(calls) :
            /\ p < j /\ j < k
            /\ calls[p].cmd = "stash push"
            /\ calls[j] = Call("checkout", currentBranch)
            /\ calls[k].cmd = "stash pop"

\* ------------------------------------------------------------------ C3
\* C3 as stated: with an explicit --branches list a completed run has visited
\* exactly the comma-separated entries of the list, in order.
C3_VisitsExactlyTheEntries ==
    (Succeeded /\ branchesArg # <<>>) => PullTargets = Split(branchesArg, ",")

\* C3 amended: with an explicit --branches list 'git branch -r' is never
\* invoked, the branches visited so far are a prefix of the comma-separated
\* entries each trimmed of whitespace with the empty ones skipped, and a
\* completed run has visited exactly those, in order.
C3_VisitsTrimmedEntries ==
    branchesArg # <<>> =>
        LET expected == TrimmedNonEmpty(Split(branchesArg, ","))
        IN  /\ ~HasCall("branch -r")
            /\ IsPrefixOf(PullTargets, expected)
            /\ IsPrefixOf(PullTargets, CheckoutTargets)
            /\ Len(SelectSeq(calls, LAMBDA c : c.cmd = "search")) <= Len(PullTargets)
            /\ Succeeded =>
                  /\ PullTargets = expected
                  /\ CheckoutTargets = expected \o <<currentBranch>>
                  /\ Len(SelectSeq(calls, LAMBDA c : c.cmd = "search")) = Len(expected)

C3_Witness ==
    /\ Succeeded
    /\ branchesArg # <<>>
    /\ Len(PullTargets) >= 1
    /\ PullTargets # Split(branchesArg, ",")

\* ------------------------------------------------------------------ C4
\* C4: when the repository path has no .git entry the run ends with the
\* not-a-git-repository error, exits non-zero, and no git or search
\* invocation has occurred.
C4_NoGitDirNoInvocations ==
    gitStat = "notexist" =>
        /\ calls = <<>>
        /\ pc \in {"returned", "exit"}
        /\ err = [kind |-> "not a git repository", arg |-> <<>>]
        /\ pc = "exit" => (exitCode = 1 /\ stderrLine = err)

C4_Witness == gitStat = "notexist" /\ pc = "exit"

\* ------------------------------------------------------------------ C5
\* C5: a search invocation for branch B that fails with captured output
\* aborts the run with the search-failed error naming B: no match line is
\* printed for B, no later branch is visited and the exit code is non-zero.
C5_SearchFailureAborts ==
    (searchErr /\ ~searchOutEmpty) =>
        /\ pc \in {"returned", "exit"}
        /\ err = [kind |-> "search failed", arg |-> branch]
        /\ emitted = <<>>
        /\ pc = "exit" => exitCode = 1

\* ------------------------------------------------------------------ C6
FatalCheckKinds ==
    {"invalid repo path", "not a git repository", "failed to get current branch",
     "failed to list remote branches", "invalid regex", "search failed"}

RECURSIVE LoopCalls(_)
LoopCalls(names) ==
    IF names = <<>> THEN <<>>
    ELSE <<Call("checkout", Head(names)), Call("pull", Head(names)),
           Call("search", <<>>)>> \o LoopCalls(Tail(names))

\* the invocations of a run in which every step succeeds
AllSucceedCalls ==
    <<Call("rev-parse", <<>>), Call("stash push", <<>>), Call("fetch", <<>>)>>
    \o (IF branchesArg = <<>> THEN <<Call("branch -r", <<>>)>> ELSE <<>>)
    \o LoopCalls(TrimmedNonEmpty(branches))
    \o <<Call("checkout", currentBranch), Call("stash pop", <<>>)>>

BestEffortCmds == {"stash push", "fetch", "checkout", "pull", "stash pop"}
IsBestEffort(c) == c.cmd \in BestEffortCmds

\* C6: a run that no fatal check ended performs, whatever the outcomes of
\* its best-effort steps, the invocations of the all-succeed run, prints
\* "Search completed!" and exits with code 0.
C6_BestEffortNeverAborts ==
    (pc = "exit" /\ err.kind \notin FatalCheckKinds) =>
        /\ calls = AllSucceedCalls
        /\ completed
        /\ exitCode = 0
        /\ err = NoErr

\* every best-effort step of a run over at least one branch failed
C6_Witness ==
    /\ Succeeded
    /\ Len(PullTargets) >= 1
    /\ noneSucceeded
    /\ Len(SelectSeq(calls, IsBestEffort)) >= 7

\* ------------------------------------------------------------------ C7
\* C7: a finished run is either a success exit (code 0, "Search completed!"
\* printed, no Error: line) or a fatal-error exit (code 1, an Error: line,
\* "Search completed!" not printed); never both, and no exit code is set
\* before the run finishes.
C7_ExactlyOneOutcome ==
    /\ ~(completed /\ exitCode = 1)
    /\ pc # "exit" => exitCode = -1 /\ stderrLine = NoErr
    /\ pc = "exit" =>
          \/ exitCode = 0 /\ completed /\ stderrLine = NoErr
          \/ exitCode = 1 /\ ~completed /\ stderrLine # NoErr

C7_Witness == pc = "exit" /\ exitCode = 1 /\ HasCall("fetch")

\* ------------------------------------------------------------------ C8
IsTransition(c) == c.cmd \notin {"rev-parse", "branch -r"}

\* C8: in a successful run the state transitions are stash push, fetch,
\* checkout/pull/search per branch, checkout of the branch recorded at the
\* start, and stash pop as the last invocation.
C8_TransitionOrder ==
    Succeeded =>
        /\ SelectSeq(calls, IsTransition) =
              <<Call("stash push", <<>>), Call("fetch", <<>>)>>
              \o LoopCalls(PullTargets)
              \o <<Call("checkout", currentBranch), Call("stash pop", <<>>)>>
        /\ calls[1] = Call("rev-parse", <<>>)
        /\ calls[Len(calls)] = Call("stash pop", <<>>)
        /\ calls[Len(calls) - 1] = Call("checkout", currentBranch)

C8_Witness ==
    /\ Succeeded
    /\ Len(PullTargets) = 2
    /\ \A k \in 1..Len(PullTargets) : PullTargets[k] # currentBranch

\* ------------------------------------------------------------------ C9
Colons(l) == {k \in 1..Len(l) : l[k] = ":"}
FirstColon(l) == CHOOSE p \in Colons(l) : \A q \in Colons(l) : p <= q
SecondColon(l) ==
    CHOOSE p \in Colons(l) \ {FirstColon(l)} :
        \A q \in Colons(l) \ {FirstColon(l)} : p <= q
TwoColons(l) == Cardinality(Colons(l)) >= 2

\* the line 'branch:file:line_number line_text' of a raw line file:line:text
ExpectedLine(b, l) ==
    LET p == FirstColon(l)
        q == SecondColon(l)
    IN  b \o <<":">> \o SubSeq(l, 1, p - 1) \o <<":">> \o SubSeq(l, p + 1, q - 1)
          \o <<" ">> \o SubSeq(l, q + 1, Len(l))

\* C9: the match lines printed for a branch are, in order, the lines
\* 'branch:file:line_number line_text' of exactly the raw lines with at least
\* two ':', split at their first two ':'.
C9_MatchLinesFromTwoColonLines ==
    countLine.kind # "none" =>
        LET valid == SelectSeq(matches, TwoColons)
        IN  emitted = [k \in 1..Len(valid) |-> ExpectedLine(branch, valid[k])]

\* a raw line with three ':' is printed split at its first two
C9_Witness ==
    /\ countLine.kind # "none"
    /\ matches = << <<":", ":", ":">> >>
    /\ emitted = << branch \o <<":", ":", " ", ":">> >>

\* ----------------------------------------------------------------- C10
\* C10: the N of "Found N matches in B" is the number of match lines printed
\* for B, and "No matches found in B" is printed exactly when none is.
C10_CountEqualsEmitted ==
    countLine.kind # "none" =>
        /\ countLine.kind = "found" => countLine.n = Len(emitted)
        /\ countLine.kind = "nomatches" <=> emitted = <<>>

\* ----------------------------------------------------------------- C11
\* C11: the run's 'git stash pop' never removes a stash entry that this
\* run's 'git stash push' did not create.
C11_PopOnlyOwnStash == popped # "foreign"

\* ----------------------------------------------------------------- C12
\* C12: the matches reported under branch B come from a search that ran
\* after a 'git checkout B' that succeeded.
C12_SearchOnlyAfterCheckout == countLine.kind # "none" => checkoutOk

\* ----------------------------------------------------------------- C13
\* C13: every branch name passed to 'git checkout' and 'git pull origin' in
\* the loop is non-empty, has no surrounding whitespace and does not start
\* with 'origin/'; entries empty after trimming cause no invocation.
C13_LoopNamesNormalized ==
    /\ \A k \in 1..Len(PullTargets) :
          /\ PullTargets[k] # <<>>
          /\ TrimSpace(PullTargets[k]) = PullTargets[k]
          /\ ~HasPrefix(PullTargets[k], OriginPrefix)
    /\ IsPrefixOf(PullTargets, CheckoutTargets)
    /\ Succeeded => Len(PullTargets) = Len(TrimmedNonEmpty(branches))

\* ----------------------------------------------------------------- C15
LoopCmds == {"checkout", "pull", "search"}

\* C15: the invocations of the loop come strictly one after another: a pull
\* directly after the checkout of the same branch, a search directly after a
\* pull, the next checkout only after the search, and the report of a branch
\* is printed before the invocation that follows its search.
C15_LoopSequential ==
    /\ \A k \in 1..Len(calls) :
          /\ calls[k].cmd = "pull" =>
                k > 1 /\ calls[k - 1] = Call("checkout", calls[k].arg)
          /\ calls[k].cmd = "search" => k > 1 /\ calls[k - 1].cmd = "pull"
          /\ (calls[k].cmd = "checkout" /\ k > 1 /\ calls[k - 1].cmd \in LoopCmds) =>
                calls[k - 1].cmd = "search"
          /\ (calls[k].cmd = "checkout" /\ k < Len(calls)) =>
                calls[k + 1].cmd \in {"pull", "stash pop"}
    /\ (calls # <<>> /\ calls[Len(calls)].cmd = "search") =>
          /\ countLine.kind # "none"
          /\ countLine.branch = calls[Len(calls) - 1].arg
    /\ pc \in {"pull", "search"} => countLine = NoCount /\ emitted = <<>>

\* the checkout of a second branch has followed the search of the first
C15_Witness ==
    /\ pc = "pull"
    /\ Len(calls) >= 2
    /\ calls[Len(calls) - 1].cmd = "search"

\* ----------------------------------------------------------------- C17
MutatingCmds == {"stash push", "fetch", "checkout", "pull", "stash pop"}
NoMutationYet == \A k \in 1..Len(calls) : calls[k].cmd \notin MutatingCmds

\* C17: a failed current-branch lookup aborts the run with its fatal error
\* before any mutating invocation, and a run aborted after a git invocation
\* but before any mutating one was aborted by that lookup.
C17_LookupFailureAbortsFirst ==
    /\ gitErr = "rev-parse" =>
          /\ pc \in {"returned", "exit"}
          /\ err = [kind |-> "failed to get current branch", arg |-> <<>>]
          /\ calls = <<Call("rev-parse", <<>>)>>
          /\ pc = "exit" => exitCode = 1
    /\ (err # NoErr /\ calls # <<>> /\ NoMutationYet) => gitErr = "rev-parse"
    /\ gitErr = "branch -r" => HasCall("stash push") /\ HasCall("fetch")

C17_Witness == gitErr = "rev-parse" /\ pc = "exit"

\* ----------------------------------------------------------------- C14
AllSpace(s) == \A k \in 1..Len(s) : IsSpace(s[k])

\* name has no surrounding whitespace and no 'origin/' in front
PlainName(name) ==
    \/ name = <<>>
    \/ /\ ~IsSpace(name[1])
       /\ ~IsSpace(name[Len(name)])
       /\ ~(Len(name) >= 7 /\ SubSeq(name, 1, 7) = OriginPrefix)

\* b is whitespace, prefix, name, whitespace
Decomposes(b, prefix, name) ==
    \E lead, trail \in 0..Len(b) :
        /\ lead + trail <= Len(b)
        /\ AllSpace(SubSeq(b, 1, lead))
        /\ AllSpace(SubSeq(b, Len(b) - trail + 1, Len(b)))
        /\ SubSeq(b, lead + 1, Len(b) - trail) = prefix \o name

Suffixes(b) == {SubSeq(b, k, Len(b)) : k \in 1..(Len(b) + 1)}

GlobsSupplied == Len(includeGlobs) > 0 \/ Len(excludeGlobs) > 0
IsBlank(g) == \A k \in 1..Len(g) : IsSpace(g[k])
KeptInclude == {k \in 1..Len(includeGlobs) : ~IsBlank(includeGlobs[k])}
KeptExclude == {k \in 1..Len(excludeGlobs) : ~IsBlank(excludeGlobs[k])}
Searches == Len(SelectSeq(calls, LAMBDA c : c.cmd = "search"))

\* what every search of a run is handed: grep the pattern and no glob,
\* rg every non-blank include glob as g and every non-blank exclude glob as
\* !g and nothing else
GlobsHandedToRgOnly ==
    searchCmd # NoCmd =>
        /\ searchCmd.pattern = regex
        /\ IF rgExists
           THEN /\ searchCmd.tool = "rg"
                /\ \A k \in KeptInclude :
                      \E n \in 1..Len(searchCmd.globs) :
                          searchCmd.globs[n] = includeGlobs[k]
                /\ \A k \in KeptExclude :
                      \E n \in 1..Len(searchCmd.globs) :
                          searchCmd.globs[n] = <<"!">> \o excludeGlobs[k]
                /\ Len(searchCmd.globs) = Cardinality(KeptInclude) + Cardinality(KeptExclude)
           ELSE /\ searchCmd.tool = "grep"
                /\ searchCmd.flags = <<"-rnE">>
                /\ searchCmd.path = "."
                /\ searchCmd.globs = <<>>

\* C16 as stated: with globs and grep only, no search is handed a glob and
\* the run prints the warning exactly once; with rg no warning is printed
\* and every non-blank glob is handed over.
C16_WarnedOncePerRun ==
    /\ GlobsHandedToRgOnly
    /\ rgExists => warnings = 0
    /\ (pc = "exit" /\ GlobsSupplied /\ ~rgExists) => warnings = 1

\* C16 amended: the warning is printed at most once, and exactly once by
\* the time the stash push is due in a run with globs and grep only; a run
\* aborted before that prints none.
C16_WarnedOnceBeforeStash ==
    /\ GlobsHandedToRgOnly
    /\ rgExists => warnings = 0
    /\ ~GlobsSupplied => warnings = 0
    /\ (GlobsSupplied /\ ~rgExists) =>
          warnings = IF pc = "stash" \/ HasCall("stash push") THEN 1 ELSE 0

C16_Witness ==
    /\ pc = "exit"
    /\ GlobsSupplied
    /\ ~rgExists
    /\ Searches = 2
    /\ searchCmd.tool = "grep"
    /\ warnings = 1

====
